---- MODULE Spec2Model ----
(***************************************************************************)
(* Model of the pstop orchestrator (src/app/app.go): App.Setup, the        *)
(* App.Run select loop and App.Cleanup, with the six collectors, the view  *)
(* selector, the wait-interval holder and the display as collaborators.    *)
(***************************************************************************)
EXTENDS Integers, Sequences, FiniteSets, TLC

(* ------------------------------ bounds --------------------------------- *)
\* loop iterations explored in Run
MaxIters == 3
\* largest run budget (count argument of Setup)
MaxCount == 2
\* largest interval argument of Setup, in seconds (the smallest is -1)
MaxIntervalArg == 1
\* longest version string the version gate is tried on, beyond the examples
MaxVersionLen == 5

(* --------------------------- program constants ------------------------- *)
\* time.Second, the unit all durations are counted in
Second == 1

\* the view package's fixed order of views
ViewLatency == 0
ViewOps == 1
ViewIO == 2
ViewLocks == 3
ViewUsers == 4
ViewMutex == 5
ViewStages == 6
NumViews == 7
ViewNames == <<"Latency", "Ops", "IO", "Locks", "Users", "Mutex", "Stages">>
Views == 0 .. (NumViews - 1)

\* the collector fields of App
Collectors == {"fsbi", "tiwsbt", "tlwsbt", "ewsgben", "essgben", "users"}

\* the tables checked by validate_mysql_version, in order
NumTables == 5

\* version strings the engine may report, one character per element
Versions ==
    { <<"5", ".", "7", ".", "2", "1", "-", "l", "o", "g">>,
      <<"5", ".", "5", ".", "5", "0">>,
      <<"8", ".", "0", ".", "1">>,
      <<"5", ".", "6", "7">>,
      <<"1", "0", ".", "2", ".", "1">>,
      <<>> }

IntervalArgs == (0 - 1) .. MaxIntervalArg
DefaultViewArgs == {ViewNames[i] : i \in 1 .. NumViews} \cup {"", "bogus"}

(* ------------------------------ state ---------------------------------- *)
VARIABLES
    pc,                  \* "start", "loop", "cleanup", "exited", "fatal"
    count,               \* app.count
    finished,            \* app.finished
    stdout,              \* app.stdout
    help,                \* app.help
    view,                \* app.view
    wait_interval,       \* app.wi's interval, in seconds
    want_relative_stats, \* app.want_relative_stats
    coll_relative,       \* the flag each collector holds
    disp_relative,       \* the flag the display holds
    wants_latency,       \* app.tiwsbt's latency-vs-count flag
    monitoring,          \* setup_instruments has enabled monitoring
    constructed,         \* the collectors have been constructed
    db,                  \* the engine's counters: they have grown by
                         \* the time of every collection
    current,             \* each collector's counters as last collected
    initial,             \* each collector's reference snapshot
    display_open,        \* the display is set up and not closed
    dbh_open,            \* the connection is open
    mysql_version,       \* the version string the display was given
    ops,                 \* the calls the last handler made, in order
    handler,             \* the last handler that ran
    cleanups,            \* times Cleanup has run
    version_queries,     \* times validate_mysql_version asked for VERSION
    count0,              \* the count argument Setup was given
    iters,               \* select iterations Run has completed
    cycles,              \* iterations that were a timer tick
    waits_after_finished,\* select iterations begun with finished set
    events_handled,      \* some input event has been handled
    run_collected,       \* collectors collected since Setup
    fatal_err,           \* why the process exited early, "" if it has not
    interval0,           \* the interval argument Setup was given
    probe,               \* what the engine answered validate_mysql_version
    last,                \* each collector's Last() timestamp
    disp_last,           \* the timestamp the display was last given
    sig_pending,         \* app.sigChan holds a signal not yet received
    gate_input,          \* a version string handed to the version gate
    gate_result          \* "none", or what the gate said of gate_input

vars == <<pc, count, finished, stdout, help, view, wait_interval,
          want_relative_stats, coll_relative, disp_relative, wants_latency,
          monitoring, constructed, db, current, initial, display_open,
          dbh_open, mysql_version, ops, handler, cleanups, version_queries,
          count0, iters, cycles, waits_after_finished, events_handled,
          run_collected, fatal_err, interval0, probe, last, disp_last,
          sig_pending, gate_input, gate_result>>
time_vars == <<last, disp_last>>
gate_vars == <<gate_input, gate_result>>

Op(name, arg) == <<name, arg>>

(* --------------------------- collaborators ----------------------------- *)
\* regexp ^(5\.[67]\.|10\.[01]) matched against the start of the string
re_valid_version_no_trailing_dot(s) ==
    \/ /\ Len(s) >= 3
       /\ s[1] = "5" /\ s[2] = "." /\ s[3] \in {"6", "7"}
    \/ /\ Len(s) >= 4
       /\ s[1] = "1" /\ s[2] = "0" /\ s[3] = "." /\ s[4] \in {"0", "1"}
re_valid_version(s) ==
    \/ /\ Len(s) >= 4
       /\ s[1] = "5" /\ s[2] = "." /\ s[3] \in {"6", "7"} /\ s[4] = "."
    \/ /\ Len(s) >= 4
       /\ s[1] = "1" /\ s[2] = "0" /\ s[3] = "." /\ s[4] \in {"0", "1"}

\* validate_mysql_version: "" for nil, else the error it returns.
\* query_err: the VERSION query failed; bad_table: index of the first
\* inaccessible table, 0 when all are accessible.
validate_skips_last_table(query_err, version, bad_table) ==
    IF query_err THEN "query"
    ELSE IF ~re_valid_version(version) THEN "version"
    ELSE IF bad_table # 0 /\ bad_table < NumTables THEN "table"
    ELSE ""
validate_mysql_version(query_err, version, bad_table) ==
    IF query_err THEN "query"
    ELSE IF ~re_valid_version(version) THEN "version"
    ELSE IF bad_table # 0 THEN "table"
    ELSE ""

\* wait_info.SetWaitInterval: the interval is floor-clamped to one second
SetWaitIntervalUnclamped(d) == d
SetWaitInterval(d) == IF d < Second THEN Second ELSE d

\* view.SetByName: the view with that label, the first view otherwise
SetByName(name) ==
    IF \E i \in 1 .. NumViews : ViewNames[i] = name
    THEN (CHOOSE i \in 1 .. NumViews : ViewNames[i] = name) - 1
    ELSE ViewLatency

\* view.SetNext / view.SetPrev: cyclic successor and predecessor
SetNext(v) == (v + 1) % NumViews
SetPrev(v) == (v + NumViews - 1) % NumViews

(* ------------------------ App's dispatch tables ------------------------ *)
\* the switch of App.Collect
CollectTargetOpsFallsThrough(v) ==
    CASE v = ViewLatency -> "tiwsbt"
      [] v \in {ViewOps, ViewIO} -> "fsbi"
      [] v = ViewLocks -> "tlwsbt"
      [] v = ViewUsers -> "users"
      [] v = ViewMutex -> "ewsgben"
      [] v = ViewStages -> "essgben"
CollectTarget(v) ==
    CASE v \in {ViewLatency, ViewOps} -> "tiwsbt"
      [] v = ViewIO -> "fsbi"
      [] v = ViewLocks -> "tlwsbt"
      [] v = ViewUsers -> "users"
      [] v = ViewMutex -> "ewsgben"
      [] v = ViewStages -> "essgben"

\* the switch of App.updateLast
LastTarget(v) ==
    CASE v \in {ViewLatency, ViewOps} -> "tiwsbt"
      [] v = ViewIO -> "fsbi"
      [] v = ViewLocks -> "tlwsbt"
      [] v = ViewUsers -> "users"
      [] v = ViewMutex -> "ewsgben"
      [] v = ViewStages -> "essgben"

\* the switch of App.Display: the display routine and the collector drawn
DisplayCallMutexDrawsStages(v) ==
    CASE v \in {ViewLatency, ViewOps} -> Op("DisplayOpsOrLatency", "tiwsbt")
      [] v = ViewIO -> Op("DisplayIO", "fsbi")
      [] v = ViewLocks -> Op("DisplayLocks", "tlwsbt")
      [] v = ViewUsers -> Op("DisplayUsers", "users")
      [] v = ViewMutex -> Op("DisplayMutex", "essgben")
      [] v = ViewStages -> Op("DisplayStages", "essgben")
DisplayCall(v) ==
    CASE v \in {ViewLatency, ViewOps} -> Op("DisplayOpsOrLatency", "tiwsbt")
      [] v = ViewIO -> Op("DisplayIO", "fsbi")
      [] v = ViewLocks -> Op("DisplayLocks", "tlwsbt")
      [] v = ViewUsers -> Op("DisplayUsers", "users")
      [] v = ViewMutex -> Op("DisplayMutex", "ewsgben")
      [] v = ViewStages -> Op("DisplayStages", "essgben")

\* App.Display
DisplayOps(h, v) ==
    IF h THEN <<Op("DisplayHelp", "")>>
    ELSE <<Op("SetUptime", ""), DisplayCall(v)>>

\* App.Collect: the reference snapshots are left as they are
CollectInitialSyncs(init, cur, v) ==
    [init EXCEPT ![CollectTarget(v)] = cur[CollectTarget(v)]]
CollectInitial(init, cur, v) == init

\* App.Collect
CollectOps(v) ==
    <<Op("Collect", CollectTarget(v)), Op("SetLast", LastTarget(v)),
      Op("CollectedNow", "")>>

\* the collectors App.ResetDBStatistics collects, in order
ResetOrder == <<"fsbi", "tlwsbt", "tiwsbt", "essgben", "ewsgben">>
\* the collectors App.SyncReferenceValues syncs, in order
SyncOrder == <<"fsbi", "tlwsbt", "tiwsbt", "essgben", "ewsgben">>
\* the collectors App.SetWantRelativeStats passes the flag to
RelativeOrder == <<"fsbi", "tlwsbt", "tiwsbt", "ewsgben", "essgben">>
\* the collectors App.Setup passes the flag to
SetupRelativeOrder == <<"fsbi", "tlwsbt", "tiwsbt", "users", "essgben", "ewsgben">>

\* time.Now() as a logical clock: Setup runs at time 1 and the iteration of
\* Run that follows it completed iterations at time it + 2
IterationTime(it) == it + 2
\* a collector's SetNow() and Collect() record the time as its Last()
Refreshed(l, cs, t) == [c \in Collectors |-> IF c \in cs THEN t ELSE l[c]]
\* App.updateLast: the timestamp handed to display.SetLast
updateLast(l, v) == l[LastTarget(v)]

Range(q) == {q[i] : i \in 1 .. Len(q)}
Calls(name, q) == [i \in 1 .. Len(q) |-> Op(name, q[i])]

\* App.SyncReferenceValues
SyncReferenceValuesOps(v) ==
    Calls("SyncReferenceValues", SyncOrder) \o <<Op("SetLast", LastTarget(v))>>
SyncedInitial(cur, init) ==
    [c \in Collectors |-> IF c \in Range(SyncOrder) THEN cur[c] ELSE init[c]]

\* App.ResetDBStatistics
ResetDBStatisticsOps(v) ==
    Calls("Collect", ResetOrder) \o SyncReferenceValuesOps(v)
ResetCurrent(cur, d) ==
    [c \in Collectors |-> IF c \in Range(ResetOrder) THEN d ELSE cur[c]]

\* App.SetWantRelativeStats, the collectors' part
SetWantRelativeStats(flags, b) ==
    [c \in Collectors |-> IF c \in Range(RelativeOrder) THEN b ELSE flags[c]]
SetWantRelativeStatsOps ==
    Calls("SetWantRelativeStats", RelativeOrder)
        \o <<Op("display.SetWantRelativeStats", "")>>

\* App.fix_latency_setting
fix_latency_setting(v, wl) ==
    IF v = ViewLatency THEN TRUE
    ELSE IF v = ViewOps THEN FALSE
    ELSE wl

\* App.DisplayNext / App.DisplayPrevious, the view they leave
DisplayNextGoesBack(v) == SetPrev(v)
DisplayNext(v) == SetNext(v)
DisplayPrevious(v) == SetPrev(v)

\* the loop condition of App.Run: for !app.Finished()
LoopConditionAlways(fin) == TRUE
LoopCondition(fin) == ~fin

\* the hook at the end of each iteration of App.Run
CountAfterIgnoresStdout(so, cnt) == IF cnt > 0 THEN cnt - 1 ELSE cnt
CountAfter(so, cnt) == IF so /\ cnt > 0 THEN cnt - 1 ELSE cnt
FinishedAfterNeverSet(so, cnt, fin) == fin
FinishedAfter(so, cnt, fin) ==
    IF so /\ cnt > 0 /\ cnt - 1 = 0 THEN TRUE ELSE fin

(* ------------------------------ Init ----------------------------------- *)
\* the zero App, before main calls Setup
InitApp ==
    /\ pc = "start"
    /\ count = 0
    /\ finished = FALSE
    /\ stdout = FALSE
    /\ help = FALSE
    /\ view = ViewLatency
    /\ wait_interval = 0
    /\ want_relative_stats = FALSE
    /\ coll_relative = [c \in Collectors |-> FALSE]
    /\ disp_relative = FALSE
    /\ wants_latency = FALSE
    /\ monitoring = FALSE
    /\ constructed = FALSE
    /\ db = 0
    /\ current = [c \in Collectors |-> 0]
    /\ initial = [c \in Collectors |-> 0]
    /\ display_open = FALSE
    /\ dbh_open = TRUE
    /\ mysql_version = <<>>
    /\ ops = <<>>
    /\ handler = "none"
    /\ cleanups = 0
    /\ version_queries = 0
    /\ count0 = 0
    /\ iters = 0
    /\ cycles = 0
    /\ waits_after_finished = 0
    /\ events_handled = FALSE
    /\ run_collected = {}
    /\ fatal_err = ""
    /\ interval0 = 0
    /\ probe = [query_err |-> FALSE, version |-> <<>>, bad_table |-> 0]
    /\ last = [c \in Collectors |-> 0]
    /\ disp_last = 0
    /\ sig_pending = FALSE

Init ==
    /\ InitApp
    /\ gate_input = <<>>
    /\ gate_result = "none"

(* ------------------------------ Setup ---------------------------------- *)
\* what Setup does before validate_mysql_version, whatever its outcome
SetupHead(interval, cnt, so, default_view, query_err, version, bad_table) ==
    /\ count' = cnt
    /\ count0' = cnt
    /\ interval0' = interval
    /\ probe' = [query_err |-> query_err, version |-> version,
                 bad_table |-> bad_table]
    /\ finished' = FALSE
    /\ stdout' = so
    /\ display_open' = TRUE
    /\ help' = FALSE
    /\ view' = SetByName(default_view)
    /\ version_queries' = version_queries + 1
    /\ handler' = "Setup"

\* log.Fatal(err): the process exits inside Setup
SetupFatal ==
    /\ pc = "start"
    /\ \E interval \in IntervalArgs, cnt \in 0 .. MaxCount, so \in BOOLEAN,
          default_view \in DefaultViewArgs, query_err \in BOOLEAN,
          version \in Versions, bad_table \in 0 .. NumTables :
          /\ validate_mysql_version(query_err, version, bad_table) # ""
          /\ fatal_err' = validate_mysql_version(query_err, version, bad_table)
          /\ SetupHead(interval, cnt, so, default_view, query_err, version,
                       bad_table)
    /\ ops' = <<Op("display.Setup", ""), Op("ClearAndFlush", "")>>
    /\ pc' = "fatal"
    /\ UNCHANGED <<wait_interval, want_relative_stats, coll_relative,
                   disp_relative, wants_latency, monitoring, constructed, db,
                   current, initial, dbh_open, mysql_version, cleanups, iters,
                   cycles, waits_after_finished, events_handled, run_collected>>
    /\ UNCHANGED <<time_vars, sig_pending, gate_vars>>

\* Setup runs to its end
SetupOk ==
    /\ pc = "start"
    /\ \E interval \in IntervalArgs, cnt \in 0 .. MaxCount, so \in BOOLEAN,
          default_view \in DefaultViewArgs, query_err \in BOOLEAN,
          version \in Versions, bad_table \in 0 .. NumTables :
          /\ validate_mysql_version(query_err, version, bad_table) = ""
          /\ SetupHead(interval, cnt, so, default_view, query_err, version,
                       bad_table)
          /\ wait_interval' = SetWaitInterval(Second * interval)
          /\ mysql_version' = version
    /\ db' = db + 1
    /\ current' = ResetCurrent(current, db')
    /\ initial' = SyncedInitial(current', initial)
    /\ ops' = <<Op("display.Setup", ""), Op("ClearAndFlush", ""),
                Op("EnableMonitoring", "")>>
              \o Calls("SetWantRelativeStats", SetupRelativeOrder)
              \o ResetDBStatisticsOps(view')
              \o <<Op("SetWantsLatency", "tiwsbt"),
                   Op("display.SetWantRelativeStats", "")>>
    /\ monitoring' = TRUE
    /\ constructed' = TRUE
    /\ want_relative_stats' = TRUE
    /\ coll_relative' =
           [c \in Collectors |->
               IF c \in Range(SetupRelativeOrder) THEN TRUE ELSE coll_relative[c]]
    /\ wants_latency' = TRUE
    /\ disp_relative' = TRUE
    /\ last' = Refreshed(last, Range(SetupRelativeOrder) \cup Range(ResetOrder), 1)
    /\ disp_last' = updateLast(last', view')
    /\ pc' = "loop"
    /\ UNCHANGED <<dbh_open, cleanups, iters, cycles, waits_after_finished,
                   events_handled, run_collected, fatal_err>>
    /\ UNCHANGED <<sig_pending, gate_vars>>

(* ------------------------------- Run ----------------------------------- *)
\* the handlers of the poll-time events
DecreasePollTimeIncreases(w) == SetWaitInterval(w + Second)
DecreasePollTime(w) ==
    IF w > Second THEN SetWaitInterval(w - Second) ELSE w
IncreasePollTime(w) == SetWaitInterval(w + Second)

\* one pass of the body of the for loop: the select has chosen a case, the
\* case has run and left the finished flag at fin, its calls were calls
IterationStep(name, fin, calls) ==
    /\ pc = "loop"
    /\ LoopCondition(finished)
    /\ handler' = name
    /\ ops' = calls
    /\ count' = CountAfter(stdout, count)
    /\ finished' = FinishedAfter(stdout, count, fin)
    /\ iters' = iters + 1
    /\ waits_after_finished' = waits_after_finished + (IF finished THEN 1 ELSE 0)
    /\ pc' = "loop"
    /\ UNCHANGED <<stdout, monitoring, constructed, display_open, dbh_open,
                   mysql_version, cleanups, version_queries, count0, fatal_err,
                   interval0, probe, gate_vars>>

\* an iteration whose case is the timer's or the event channel's; the model
\* follows MaxIters of them
Iteration(name, fin, calls) ==
    /\ iters < MaxIters
    /\ IterationStep(name, fin, calls)
    /\ UNCHANGED sig_pending

\* signal.Notify(app.sigChan, SIGINT, SIGTERM): the runtime puts a signal
\* sent to the process into app.sigChan while Run is in its loop
SigArrive ==
    /\ pc = "loop"
    /\ ~sig_pending
    /\ sig_pending' = TRUE
    /\ UNCHANGED <<pc, count, finished, stdout, help, view, wait_interval,
                   want_relative_stats, coll_relative, disp_relative,
                   wants_latency, monitoring, constructed, db, current,
                   initial, display_open, dbh_open, mysql_version, ops,
                   handler, cleanups, version_queries, count0, iters, cycles,
                   waits_after_finished, events_handled, run_collected,
                   fatal_err, interval0, probe, time_vars, gate_vars>>

\* the signal case's assignment to app.finished
SignalFinishedKeeps(fin) == fin
SignalFinished(fin) == TRUE

\* case sig := <-app.sigChan: ready only while the channel holds a signal
Signal ==
    /\ sig_pending
    /\ sig_pending' = FALSE
    /\ IterationStep("Signal", SignalFinished(finished), <<>>)
    /\ UNCHANGED <<help, view, wait_interval, want_relative_stats,
                   coll_relative, disp_relative, wants_latency, db, current,
                   initial, cycles, events_handled, run_collected>>
    /\ UNCHANGED time_vars

\* case <-app.wi.WaitNextPeriod()
Tick ==
    /\ Iteration("Tick", finished, CollectOps(view) \o DisplayOps(help, view))
    /\ db' = db + 1
    /\ current' = [current EXCEPT ![CollectTarget(view)] = db']
    /\ run_collected' = run_collected \cup {CollectTarget(view)}
    /\ initial' = CollectInitial(initial, current', view)
    /\ last' = Refreshed(last, {CollectTarget(view)}, IterationTime(iters))
    /\ disp_last' = updateLast(last', view)
    /\ cycles' = cycles + 1
    /\ UNCHANGED <<help, view, wait_interval, want_relative_stats,
                   coll_relative, disp_relative, wants_latency,
                   events_handled>>

EvFinished ==
    /\ Iteration("EventFinished", TRUE, <<>>)
    /\ events_handled' = TRUE
    /\ UNCHANGED <<help, view, wait_interval, want_relative_stats,
                   coll_relative, disp_relative, wants_latency, db, current,
                   initial, cycles, run_collected>>
    /\ UNCHANGED time_vars

EvViewNext ==
    /\ view' = DisplayNext(view)
    /\ wants_latency' = fix_latency_setting(view', wants_latency)
    /\ Iteration("EventViewNext", finished,
                 <<Op("SetNext", ""), Op("ClearAndFlush", "")>>
                     \o DisplayOps(help, view'))
    /\ events_handled' = TRUE
    /\ UNCHANGED <<help, wait_interval, want_relative_stats, coll_relative,
                   disp_relative, db, current, initial, cycles, run_collected>>
    /\ UNCHANGED time_vars

EvViewPrev ==
    /\ view' = DisplayPrevious(view)
    /\ wants_latency' = fix_latency_setting(view', wants_latency)
    /\ Iteration("EventViewPrev", finished,
                 <<Op("SetPrev", ""), Op("ClearAndFlush", "")>>
                     \o DisplayOps(help, view'))
    /\ events_handled' = TRUE
    /\ UNCHANGED <<help, wait_interval, want_relative_stats, coll_relative,
                   disp_relative, db, current, initial, cycles, run_collected>>
    /\ UNCHANGED time_vars

EvDecreasePollTime ==
    /\ Iteration("EventDecreasePollTime", finished, <<>>)
    /\ wait_interval' = DecreasePollTime(wait_interval)
    /\ events_handled' = TRUE
    /\ UNCHANGED <<help, view, want_relative_stats, coll_relative,
                   disp_relative, wants_latency, db, current, initial, cycles,
                   run_collected>>
    /\ UNCHANGED time_vars

EvIncreasePollTime ==
    /\ Iteration("EventIncreasePollTime", finished, <<>>)
    /\ wait_interval' = IncreasePollTime(wait_interval)
    /\ events_handled' = TRUE
    /\ UNCHANGED <<help, view, want_relative_stats, coll_relative,
                   disp_relative, wants_latency, db, current, initial, cycles,
                   run_collected>>
    /\ UNCHANGED time_vars

EvHelp ==
    /\ Iteration("EventHelp", finished, <<Op("ClearAndFlush", "")>>)
    /\ help' = ~help
    /\ events_handled' = TRUE
    /\ UNCHANGED <<view, wait_interval, want_relative_stats, coll_relative,
                   disp_relative, wants_latency, db, current, initial, cycles,
                   run_collected>>
    /\ UNCHANGED time_vars

EvToggleWantRelative ==
    /\ Iteration("EventToggleWantRelative", finished,
                 SetWantRelativeStatsOps \o DisplayOps(help, view))
    /\ want_relative_stats' = ~want_relative_stats
    /\ coll_relative' = SetWantRelativeStats(coll_relative, want_relative_stats')
    /\ disp_relative' = want_relative_stats'
    /\ events_handled' = TRUE
    /\ UNCHANGED <<help, view, wait_interval, wants_latency, db, current,
                   initial, cycles, run_collected>>
    /\ UNCHANGED time_vars

EvResetStatistics ==
    /\ Iteration("EventResetStatistics", finished,
                 ResetDBStatisticsOps(view) \o DisplayOps(help, view))
    /\ db' = db + 1
    /\ current' = ResetCurrent(current, db')
    /\ initial' = SyncedInitial(current', initial)
    /\ run_collected' = run_collected \cup Range(ResetOrder)
    /\ last' = Refreshed(last, Range(ResetOrder), IterationTime(iters))
    /\ disp_last' = updateLast(last', view)
    /\ events_handled' = TRUE
    /\ UNCHANGED <<help, view, wait_interval, want_relative_stats,
                   coll_relative, disp_relative, wants_latency, cycles>>

EvResizeScreen ==
    /\ Iteration("EventResizeScreen", finished,
                 <<Op("Resize", "")>> \o DisplayOps(help, view))
    /\ events_handled' = TRUE
    /\ UNCHANGED <<help, view, wait_interval, want_relative_stats,
                   coll_relative, disp_relative, wants_latency, db, current,
                   initial, cycles, run_collected>>
    /\ UNCHANGED time_vars

\* case event.EventError: log.Fatalf, the process exits inside Run
EvError ==
    /\ pc = "loop"
    /\ LoopCondition(finished)
    /\ iters < MaxIters
    /\ pc' = "fatal"
    /\ handler' = "EventError"
    /\ fatal_err' = "event"
    /\ ops' = <<>>
    /\ events_handled' = TRUE
    /\ UNCHANGED <<count, finished, stdout, help, view, wait_interval,
                   want_relative_stats, coll_relative, disp_relative,
                   wants_latency, monitoring, constructed, db, current,
                   initial, display_open, dbh_open, mysql_version, cleanups,
                   version_queries, count0, iters, cycles,
                   waits_after_finished, run_collected, interval0, probe,
                   time_vars, sig_pending, gate_vars>>

\* the loop condition fails: Run returns
RunReturn ==
    /\ pc = "loop"
    /\ ~LoopCondition(finished)
    /\ pc' = "cleanup"
    /\ UNCHANGED <<count, finished, stdout, help, view, wait_interval,
                   want_relative_stats, coll_relative, disp_relative,
                   wants_latency, monitoring, constructed, db, current,
                   initial, display_open, dbh_open, mysql_version, ops,
                   handler, cleanups, version_queries, count0, iters, cycles,
                   waits_after_finished, events_handled, run_collected,
                   fatal_err, interval0, probe, time_vars, sig_pending,
                   gate_vars>>

(* ------------------------------ Cleanup -------------------------------- *)
\* main calls Cleanup once Run has returned
Cleanup ==
    /\ pc = "cleanup"
    /\ display_open' = FALSE
    /\ monitoring' = (IF dbh_open THEN FALSE ELSE monitoring)
    /\ dbh_open' = FALSE
    /\ cleanups' = cleanups + 1
    /\ handler' = "Cleanup"
    /\ ops' = <<Op("display.Close", "")>>
                \o (IF dbh_open THEN <<Op("RestoreConfiguration", ""),
                                       Op("dbh.Close", "")>>
                    ELSE <<>>)
    /\ pc' = "exited"
    /\ UNCHANGED <<count, finished, stdout, help, view, wait_interval,
                   want_relative_stats, coll_relative, disp_relative,
                   wants_latency, constructed, db, current, initial,
                   mysql_version, version_queries, count0, iters, cycles,
                   waits_after_finished, events_handled, run_collected,
                   fatal_err, interval0, probe, time_vars, sig_pending,
                   gate_vars>>

Next ==
    \/ SetupFatal
    \/ SetupOk
    \/ SigArrive
    \/ Signal
    \/ Tick
    \/ EvFinished
    \/ EvViewNext
    \/ EvViewPrev
    \/ EvDecreasePollTime
    \/ EvIncreasePollTime
    \/ EvHelp
    \/ EvToggleWantRelative
    \/ EvResetStatistics
    \/ EvResizeScreen
    \/ EvError
    \/ RunReturn
    \/ Cleanup

Spec == Init /\ [][Next]_vars

(* --------------------------- the version gate --------------------------- *)
\* the version strings of the documentation's examples
Version_5_7_21_log == <<"5", ".", "7", ".", "2", "1", "-", "l", "o", "g">>
Version_5_6_40 == <<"5", ".", "6", ".", "4", "0">>
Version_10_0_38_MariaDB ==
    <<"1", "0", ".", "0", ".", "3", "8", "-", "M", "a", "r", "i", "a", "D", "B">>
Version_10_1_2 == <<"1", "0", ".", "1", ".", "2">>
Version_5_5_50 == <<"5", ".", "5", ".", "5", "0">>
Version_8_0_1 == <<"8", ".", "0", ".", "1">>

\* the strings the gate is tried on: the examples and every short string
\* over the characters the pattern tells apart
GateAlphabet == {"5", "6", "7", "1", "0", ".", "8"}
GateInputs ==
    UNION {[1 .. n -> GateAlphabet] : n \in 0 .. MaxVersionLen}
        \cup {Version_5_7_21_log, Version_5_6_40, Version_10_0_38_MariaDB,
              Version_10_1_2, Version_5_5_50, Version_8_0_1}

InitGate ==
    /\ InitApp
    /\ gate_input \in GateInputs
    /\ gate_result = "none"

\* validate_mysql_version's test of the version string
GateCheck ==
    /\ gate_result = "none"
    /\ gate_result' = IF re_valid_version(gate_input) THEN "accepted"
                      ELSE "rejected"
    /\ UNCHANGED <<pc, count, finished, stdout, help, view, wait_interval,
                   want_relative_stats, coll_relative, disp_relative,
                   wants_latency, monitoring, constructed, db, current,
                   initial, display_open, dbh_open, mysql_version, ops,
                   handler, cleanups, version_queries, count0, iters, cycles,
                   waits_after_finished, events_handled, run_collected,
                   fatal_err, interval0, probe, last, disp_last, sig_pending,
                   gate_input>>

NextGate == GateCheck

SpecGate == InitGate /\ [][NextGate]_vars

(* ============================== claims ================================== *)
Running == pc \in {"loop", "cleanup", "exited"}
SetupDone == Running \/ (pc = "fatal" /\ fatal_err = "event")
CollectCalls(q) == {i \in 1 .. Len(q) : q[i][1] = "Collect"}
SyncCalls(q) == {i \in 1 .. Len(q) : q[i][1] = "SyncReferenceValues"}

\* C1: after Setup and any handled events, the orchestrator's relative-stats
\* flag, the flag of each of the six collectors and the display's flag are
\* one and the same boolean.
C1_FlagsAgreeEverywhere ==
    SetupDone =>
        /\ \A c \in Collectors : coll_relative[c] = want_relative_stats
        /\ disp_relative = want_relative_stats

\* C2 as stated: with budget K > 0 in headless mode Run returns after exactly
\* K collect+display cycles, whatever the select loop observed.
C2_ExactlyKCycles ==
    (pc \in {"cleanup", "exited"} /\ stdout /\ count0 > 0) =>
        (finished /\ cycles = count0)

\* C2 amended: with budget K > 0 in headless mode every loop iteration, be it
\* a timer tick, an input event or a signal, uses up one unit of the budget:
\* Run makes at most K iterations, the finished flag is set once K are made
\* and whenever Run has returned, and the collect+display cycles are exactly
\* K when every iteration was a timer tick (fewer otherwise).
C2_BudgetCountsIterations ==
    (Running /\ stdout /\ count0 > 0) =>
        /\ iters <= count0
        /\ count = count0 - iters
        /\ cycles <= iters
        /\ (iters = count0 => finished)
        /\ (pc # "loop" => finished)
        /\ (pc # "loop" /\ cycles = iters => cycles = count0)

C2_Witness ==
    /\ pc = "exited"
    /\ stdout
    /\ count0 = MaxCount
    /\ cycles = MaxCount
    /\ finished

\* C3: ResetDBStatistics, run by Setup or by the ResetStatistics event,
\* collects each of the six collectors exactly once, then syncs each of the
\* six, every collection before the first sync, and leaves every collector's
\* reference snapshot equal to its current counters.
C3_ResetCoversAllSix ==
    ((handler = "Setup" /\ pc = "loop") \/ handler = "EventResetStatistics") =>
        /\ \A c \in Collectors :
              /\ Cardinality({i \in CollectCalls(ops) : ops[i][2] = c}) = 1
              /\ Cardinality({i \in SyncCalls(ops) : ops[i][2] = c}) = 1
        /\ \A i \in CollectCalls(ops), j \in SyncCalls(ops) : i < j
        /\ \A c \in Collectors : initial[c] = current[c]

\* C4: Cleanup has run exactly once whenever the process has exited, be it
\* after Run returned or through a fatal abort in Setup or in Run.
C4_CleanupOnEveryExit ==
    /\ cleanups <= 1
    /\ (pc \in {"exited", "fatal"} => cleanups = 1)

\* a step that completes one iteration of the loop of Run in the named case
IterStep(name) == iters' = iters + 1 /\ handler' = name
\* the collector behind each view, in the order Latency, Ops, IO, Locks,
\* Users, Mutex, Stages
ViewCollector ==
    <<"tiwsbt", "tiwsbt", "fsbi", "tlwsbt", "users", "ewsgben", "essgben">>

\* C5: once Setup is done the poll interval is at least one second, whatever
\* interval argument Setup was given and whatever poll events were handled.
C5_IntervalAtLeastOneSecond ==
    SetupDone => wait_interval >= Second

C5_Witness ==
    /\ SetupDone
    /\ interval0 <= 0
    /\ handler = "EventDecreasePollTime"
    /\ wait_interval = Second

\* C6: DecreasePoll lowers the interval by exactly one second when it is
\* above one second and leaves it alone otherwise, IncreasePoll raises it by
\* exactly one second, and no other step after Setup changes it.
C6_PollEventsMoveByOneSecond ==
    [][ /\ IterStep("EventDecreasePollTime") =>
              wait_interval' = IF wait_interval > Second
                               THEN wait_interval - Second
                               ELSE wait_interval
        /\ IterStep("EventIncreasePollTime") =>
              wait_interval' = wait_interval + Second
        /\ ( /\ pc # "start"
             /\ ~IterStep("EventDecreasePollTime")
             /\ ~IterStep("EventIncreasePollTime") ) =>
              wait_interval' = wait_interval ]_vars

\* two increases from one second have given three seconds
C6_Witness ==
    /\ interval0 = 1
    /\ iters = 2
    /\ handler = "EventIncreasePollTime"
    /\ wait_interval = 3

\* C7: the active view is always one of the seven; ViewNext moves it to
\* (index + 1) mod 7 and ViewPrev to (index - 1) mod 7 in the order Latency,
\* Ops, IO, Locks, Users, Mutex, Stages, wrapping at both ends, and no other
\* step after Setup changes it.
C7_ViewMovesCyclically ==
    [][ /\ view' \in 0 .. 6
        /\ IterStep("EventViewNext") =>
              /\ view' = (view + 1) % 7
              /\ (view = 6 => view' = 0)
        /\ IterStep("EventViewPrev") =>
              /\ view' = (view + 6) % 7
              /\ (view = 0 => view' = 6)
              /\ (view' + 1) % 7 = view
        /\ ( /\ pc # "start"
             /\ ~IterStep("EventViewNext")
             /\ ~IterStep("EventViewPrev") ) =>
              view' = view ]_vars

\* a ViewPrev event has wrapped the view round to Stages
C7_Witness ==
    /\ iters = 1
    /\ handler = "EventViewPrev"
    /\ view = 6

\* C8: a timer tick collects exactly the collector behind the active view
\* and leaves the counters of the five others, and every reference snapshot,
\* unchanged; as long as no input event has been handled (as in the headless
\* run with view IO and budget 3) the collectors collected since Setup are
\* at most the one behind the active view.
C8_TickCollectsActiveOnly ==
    [][ /\ IterStep("Tick") =>
              /\ \A c \in Collectors \ {ViewCollector[view + 1]} :
                    current'[c] = current[c]
              /\ initial' = initial
              /\ Cardinality(CollectCalls(ops')) = 1
              /\ \A i \in CollectCalls(ops') : ops'[i][2] = ViewCollector[view + 1]
        /\ ~events_handled' =>
              run_collected' \subseteq {ViewCollector[view' + 1]} ]_vars

\* the headless run with view IO and budget 3 has ended after three ticks
C8_Witness ==
    /\ pc = "exited"
    /\ stdout
    /\ count0 = MaxCount
    /\ view = ViewIO
    /\ ~events_handled
    /\ cycles = MaxCount
    /\ run_collected = {"fsbi"}
    /\ current["fsbi"] > initial["fsbi"]

\* C9: when the VERSION query fails, the version is rejected or a required
\* table is inaccessible, Setup ends the process having asked for the version
\* once, with monitoring not enabled, no collector constructed or collected
\* and no loop iteration made.
C9_SetupAbortsBeforeAnything ==
    ( /\ pc # "start"
      /\ \/ probe.query_err
         \/ ~re_valid_version(probe.version)
         \/ probe.bad_table # 0 ) =>
        /\ pc = "fatal"
        /\ handler = "Setup"
        /\ fatal_err \in {"query", "version", "table"}
        /\ version_queries = 1
        /\ ~monitoring
        /\ ~constructed
        /\ CollectCalls(ops) = {}
        /\ \A c \in Collectors : current[c] = 0 /\ initial[c] = 0
        /\ iters = 0
        /\ cycles = 0

\* the fifth required table was inaccessible
C9_Witness ==
    /\ pc = "fatal"
    /\ fatal_err = "table"
    /\ probe.bad_table = 5
    /\ ~probe.query_err
    /\ re_valid_version(probe.version)

\* C10: the finished flag, once set, stays set, and at most one iteration
\* of the loop begins with the flag set.
C10_FinishedEndsTheLoop ==
    [][ /\ finished => finished'
        /\ waits_after_finished' <= 1 ]_vars

\* a signal has set the flag and Run has returned without another iteration
C10_Witness ==
    /\ pc = "cleanup"
    /\ handler = "Signal"
    /\ finished
    /\ iters = 1
    /\ waits_after_finished = 0

\* s starts with p
HasPrefix(s, p) == Len(s) >= Len(p) /\ SubSeq(s, 1, Len(p)) = p
AcceptedPrefixes ==
    { <<"5", ".", "6", ".">>, <<"5", ".", "7", ".">>,
      <<"1", "0", ".", "0">>, <<"1", "0", ".", "1">> }

\* C11: the version gate accepts a string exactly when it starts with
\* "5.6.", "5.7.", "10.0" or "10.1"; it accepts 5.7.21-log, 5.6.40,
\* 10.0.38-MariaDB and 10.1.2 and rejects 5.5.50 and 8.0.1.
C11_GateAcceptsByPrefix ==
    gate_result # "none" =>
        /\ gate_result = "accepted" <=>
              \E p \in AcceptedPrefixes : HasPrefix(gate_input, p)
        /\ gate_input \in {Version_5_7_21_log, Version_5_6_40,
                           Version_10_0_38_MariaDB, Version_10_1_2} =>
              gate_result = "accepted"
        /\ gate_input \in {Version_5_5_50, Version_8_0_1} =>
              gate_result = "rejected"

\* the gate has accepted 10.0.38-MariaDB
C11_Witness ==
    /\ gate_input = Version_10_0_38_MariaDB
    /\ gate_result = "accepted"

\* C12: after Setup, whatever the default view and the ViewNext/ViewPrev
\* events handled, the table-I/O collector reports latency whenever the
\* active view is Latency and counts whenever it is Ops.
C12_LatencyFlagMatchesView ==
    SetupDone =>
        /\ view = ViewLatency => wants_latency
        /\ view = ViewOps => ~wants_latency

\* the calls of a handler that draw the screen
DisplayCalls(q) ==
    {i \in 1 .. Len(q) :
        q[i][1] \in {"DisplayHelp", "DisplayOpsOrLatency", "DisplayIO",
                     "DisplayLocks", "DisplayUsers", "DisplayMutex",
                     "DisplayStages"}}

\* C13: the handler of each of ViewNext, ViewPrev, DecreasePoll,
\* IncreasePoll, ToggleHelp, ToggleRelative, ResetStatistics and Resize
\* ends with a Display call, made after its state changes.
C13_EventsRedraw ==
    handler \in {"EventViewNext", "EventViewPrev", "EventDecreasePollTime",
                 "EventIncreasePollTime", "EventHelp",
                 "EventToggleWantRelative", "EventResetStatistics",
                 "EventResizeScreen"} =>
        /\ ops # <<>>
        /\ Len(ops) \in DisplayCalls(ops)

\* C14: after Setup only the ResetStatistics event changes a reference
\* snapshot or calls SyncReferenceValues: no timer tick, ViewNext, ViewPrev,
\* DecreasePoll, IncreasePoll, ToggleHelp, ToggleRelative or Resize does.
C14_OnlyResetSyncs ==
    [][ (pc # "start" /\ ~IterStep("EventResetStatistics")) =>
            /\ initial' = initial
            /\ (ops' # ops => SyncCalls(ops') = {}) ]_vars

\* a tick has moved a collector's counters off its baseline and the view
\* has been switched away and back since Setup
C14_Witness ==
    /\ iters = 3
    /\ cycles = 1
    /\ handler = "EventViewPrev"
    /\ ops[1][1] = "SetPrev"
    /\ \E c \in Collectors : current[c] > initial[c]

\* the display routine of each view, in the order Latency, Ops, IO, Locks,
\* Users, Mutex, Stages
ViewRoutine ==
    <<"DisplayOpsOrLatency", "DisplayOpsOrLatency", "DisplayIO",
      "DisplayLocks", "DisplayUsers", "DisplayMutex", "DisplayStages">>

\* C16: with help off, a handler that displays draws once, with the routine
\* of the active view and the collector Collect refreshes for that view
\* (Latency/Ops: tiwsbt, IO: fsbi, Locks: tlwsbt, Users: users, Mutex:
\* ewsgben, Stages: essgben); with help on it shows the help and draws no
\* collector; a timer tick collects the active view's collector either way.
C16_DisplayDrawsWhatCollectRefreshes ==
    (iters > 0 /\ handler # "EventError") =>
        /\ \A i \in DisplayCalls(ops) :
              IF help THEN ops[i] = Op("DisplayHelp", "")
              ELSE ops[i] = Op(ViewRoutine[view + 1], ViewCollector[view + 1])
        /\ Cardinality(DisplayCalls(ops)) <= 1
        /\ handler = "Tick" =>
              /\ ops[1] = Op("Collect", ViewCollector[view + 1])
              /\ Cardinality(DisplayCalls(ops)) = 1

\* a tick in help mode has collected the Mutex collector and shown the help
C16_Witness ==
    /\ handler = "Tick"
    /\ help
    /\ view = ViewMutex
    /\ ops[1] = Op("Collect", "ewsgben")
    /\ ops[Len(ops)] = Op("DisplayHelp", "")

\* C17: for budgets of zero or more, after Setup the run-budget counter is
\* never negative and never increases; it changes only by a decrement of one
\* made in headless mode with the counter positive; with budget 0 or
\* headless mode off it never changes and the finished flag is set only by
\* a signal or a Finished event (a fatal Error event ends the process).
C17_BudgetOnlyCountsDown ==
    [][ pc # "start" =>
            /\ count >= 0 /\ count' >= 0
            /\ count' <= count
            /\ count' # count => (stdout /\ count > 0 /\ count' = count - 1)
            /\ (count0 = 0 \/ ~stdout) =>
                  /\ count' = count
                  /\ count = count0
                  /\ (finished' /\ ~finished) =>
                        handler' \in {"Signal", "EventFinished"} ]_vars

\* an interactive run with a budget of 3 has ended on a Finished event with
\* the counter untouched
C17_Witness ==
    /\ pc = "exited"
    /\ ~stdout
    /\ count0 = MaxCount
    /\ count = MaxCount
    /\ iters = 3
    /\ handler = "Cleanup"
    /\ finished

\* C18: whenever a handler's Display has drawn a view, the timestamp the
\* display holds is the Last() of the collector behind the active view, also
\* right after a ViewNext or ViewPrev event.
C18_DisplayedLastIsActiveCollectors ==
    (iters > 0 /\ \E i \in DisplayCalls(ops) : ops[i][1] # "DisplayHelp") =>
        disp_last = last[ViewCollector[view + 1]]

(* ------------------------ fair arbitration (C15) ------------------------ *)
\* select picks uniformly at random among the cases that are ready, so a
\* case that stays ready is picked in the end; the loop condition is
\* evaluated as soon as an iteration has ended
SpecLive == Spec /\ WF_vars(Signal) /\ WF_vars(RunReturn)

RunReturned == pc \in {"cleanup", "exited"}

\* C15 as stated: a signal held by app.sigChan leads to Run having set
\* finished and returned
C15_SignalEndsRun == sig_pending ~> (finished /\ RunReturned)

\* C15: under fair arbitration a signal held by app.sigChan leads to Run
\* having set finished and returned, unless an Error event has ended the
\* process through log.Fatalf first
C15_SignalEndsRunUnlessFatal ==
    sig_pending ~> ((finished /\ RunReturned) \/ pc = "fatal")

\* the signal case was picked after a timer tick and an input event had
\* been served, and Run returned right after it
C15_Witness ==
    /\ handler = "Signal"
    /\ ~sig_pending
    /\ finished
    /\ pc = "cleanup"
    /\ cycles >= 1
    /\ events_handled
    /\ count = 0
    /\ ~stdout

====
